---- MODULE Spec2Model ----
(***************************************************************************)
(* A model of pyqmc's superposition combiner (pyqmc/superposewf.py) and of *)
(* its radial function family (pyqmc/func3d.py).                           *)
(*                                                                         *)
(* Numbers are exact extended rationals (a pair <<n, d>>, d = 0 for the    *)
(* IEEE specials), so the algebra of the code is followed without rounding;*)
(* a log-magnitude x is carried as the rational e^x, tagged [ln |-> e^x].  *)
(* numpy arrays are records [shape, data]; a raised exception is the value *)
(* ValueError.                                                             *)
(***************************************************************************)
EXTENDS Integers, Sequences, FiniteSets, TLC

(* ------------------------------ bounds --------------------------------- *)
MaxComp == 2    \* components (and coefficients) per combiner
MaxConf == 2    \* configurations (walkers) per batch

(* ----------------------- extended rationals ---------------------------- *)
Sgn(n) == IF n > 0 THEN 1 ELSE IF n < 0 THEN -1 ELSE 0
IAbs(n) == IF n < 0 THEN -n ELSE n
IMax(a, b) == IF a < b THEN b ELSE a

RECURSIVE GCD(_, _)
GCD(a, b) == IF b = 0 THEN a ELSE GCD(b, a % b)

\* <<n, d>> in lowest terms with d > 0; <<1,0>> = +inf, <<-1,0>> = -inf,
\* <<0,0>> = nan (what numpy's float arithmetic yields on x/0, 0/0, inf-inf)
Norm(n, d) ==
    IF d = 0 THEN <<Sgn(n), 0>>
    ELSE LET g == GCD(IAbs(n), IAbs(d))
             s == Sgn(d)
         IN  <<(s * n) \div g, (s * d) \div g>>

NaN == <<0, 0>>
PInf == <<1, 0>>
NInf == <<-1, 0>>
Zero == <<0, 1>>
One == <<1, 1>>
Q(n, d) == Norm(n, d)
I(n) == <<n, 1>>

IsNaN(a) == a = NaN
IsFinite(a) == a[2] # 0

\* (the common factors are divided out before multiplying)
RAdd(a, b) ==
    IF a[2] = 0 /\ b[2] = 0
    THEN (IF a = b THEN a ELSE NaN)
    ELSE IF a[2] = 0 THEN a
    ELSE IF b[2] = 0 THEN b
    ELSE LET g == GCD(a[2], b[2])
         IN  Norm(a[1] * (b[2] \div g) + b[1] * (a[2] \div g), (a[2] \div g) * b[2])
RNeg(a) == <<-a[1], a[2]>>
RSub(a, b) == RAdd(a, RNeg(b))
RMul(a, b) ==
    IF a[2] = 0 \/ b[2] = 0 THEN <<Sgn(a[1]) * Sgn(b[1]), 0>>
    ELSE LET g == IMax(1, GCD(IAbs(a[1]), b[2]))
             h == IMax(1, GCD(IAbs(b[1]), a[2]))
         IN  Norm((a[1] \div g) * (b[1] \div h), (a[2] \div h) * (b[2] \div g))
RInv(a) == Norm(a[2], a[1])
RDiv(a, b) == RMul(a, RInv(b))
RAbs(a) == <<IAbs(a[1]), a[2]>>
RLt(a, b) == a[1] * b[2] < b[1] * a[2]
RLe(a, b) == (~IsNaN(a)) /\ (~IsNaN(b)) /\ ~RLt(b, a)
RSq(a) == RMul(a, a)
RCube(a) == RMul(a, RMul(a, a))

\* the log domain: ln q is carried as [ln |-> q]; ln 0 = -inf, ln inf = inf
Log(q) == IF IsNaN(q) \/ q[1] < 0 THEN [ln |-> NaN] ELSE [ln |-> q]
Exp(x) == x.ln
LAdd(x, y) == [ln |-> RMul(x.ln, y.ln)]
LSub(x, y) == [ln |-> RDiv(x.ln, y.ln)]
LLt(x, y) == RLt(x.ln, y.ln)

(* ------------------------------ numpy arrays --------------------------- *)
\* what a raising numpy call (shape mismatch in einsum or broadcasting) yields
ValueError == [err |-> "ValueError", shape |-> <<>>, data |-> <<>>]
IndexError == [err |-> "IndexError", shape |-> <<>>, data |-> <<>>]
\* a returned Python tuple, list or Parameters object
Tuple(items) == [err |-> "", shape |-> <<>>, data |-> items]
\* a shape, and a subscript list, that could not be formed
NoShape == <<-1>>
NoLabels == <<"!">>
\* mask=None, and a boolean mask over the configurations
None == [isNone |-> TRUE, bits |-> <<>>]
BoolMask(bits) == [isNone |-> FALSE, bits |-> bits]

RECURSIVE Indices(_)
Indices(shape) ==
    IF shape = <<>> THEN {<<>>}
    ELSE {<<i>> \o t : i \in 1..Head(shape), t \in Indices(Tail(shape))}

Arr(shape, data) == [err |-> "", shape |-> shape, data |-> data]
\* a Python list or a sequence of numbers as a 1-d array
Arr1(seq) == Arr(<<Len(seq)>>, [idx \in Indices(<<Len(seq)>>) |-> seq[idx[1]]])
IsErr(a) == a.err # ""

\* numpy broadcasting of two shapes, aligned from the right
PadShape(s, n) == [k \in 1..n |-> IF k <= n - Len(s) THEN 1 ELSE s[k - (n - Len(s))]]
BShape(s, t) ==
    LET n == IMax(Len(s), Len(t))
        ps == PadShape(s, n)
        pt == PadShape(t, n)
    IN  IF \A k \in 1..n : ps[k] = pt[k] \/ ps[k] = 1 \/ pt[k] = 1
        THEN [k \in 1..n |-> IF ps[k] = 1 THEN pt[k] ELSE ps[k]]
        ELSE NoShape
\* the index of an operand of shape s that feeds element idx of the result
SIdx(s, idx) ==
    [k \in 1..Len(s) |-> IF s[k] = 1 THEN 1 ELSE idx[k + Len(idx) - Len(s)]]

\* an elementwise binary operation f on two arrays, with broadcasting
Broadcast(f(_, _), A, B) ==
    IF IsErr(A) \/ IsErr(B) THEN ValueError
    ELSE LET sh == BShape(A.shape, B.shape)
         IN  IF sh = NoShape THEN ValueError
             ELSE Arr(sh, [idx \in Indices(sh) |->
                        f(A.data[SIdx(A.shape, idx)], B.data[SIdx(B.shape, idx)])])
Map(f(_), A) ==
    IF IsErr(A) THEN ValueError
    ELSE Arr(A.shape, [idx \in Indices(A.shape) |-> f(A.data[idx])])

\* np.squeeze: every axis of length 1 is removed
RECURSIVE Unsqueeze(_, _)
Unsqueeze(shape, idx) ==
    IF shape = <<>> THEN <<>>
    ELSE IF Head(shape) = 1 THEN <<1>> \o Unsqueeze(Tail(shape), idx)
    ELSE <<Head(idx)>> \o Unsqueeze(Tail(shape), Tail(idx))
squeeze(A) ==
    LET sh == SelectSeq(A.shape, LAMBDA n : n # 1)
    IN  Arr(sh, [idx \in Indices(sh) |-> A.data[Unsqueeze(A.shape, idx)]])

\* a[:, k, :] of a 3-d array
Slice2(A, k) ==
    LET sh == <<A.shape[1], A.shape[3]>>
    IN  Arr(sh, [idx \in Indices(sh) |-> A.data[<<idx[1], k, idx[2]>>]])
\* the positions a boolean mask selects, in order
Selected(mask) == SelectSeq([j \in 1..Len(mask.bits) |-> j], LAMBDA j : mask.bits[j])
\* a[:, k, mask] of a 3-d array: mask None inserts an axis of length 1,
\* a boolean mask keeps the selected positions of the last axis
MaskIndex3(A, k, mask) ==
    IF mask.isNone
    THEN LET sh == <<A.shape[1], 1, A.shape[3]>>
         IN  Arr(sh, [idx \in Indices(sh) |-> A.data[<<idx[1], k, idx[3]>>]])
    ELSE LET sel == Selected(mask)
             sh == <<A.shape[1], Len(sel)>>
         IN  Arr(sh, [idx \in Indices(sh) |-> A.data[<<idx[1], k, sel[idx[2]]>>]])
\* a[mask] of a 1-d array
MaskIndex1(A, mask) ==
    IF mask.isNone
    THEN LET sh == <<1, A.shape[1]>>
         IN  Arr(sh, [idx \in Indices(sh) |-> A.data[<<idx[2]>>]])
    ELSE LET sel == Selected(mask)
             sh == <<Len(sel)>>
         IN  Arr(sh, [idx \in Indices(sh) |-> A.data[<<sel[idx[1]]>>]])

(* np.einsum.  subs[k] is the subscript list of operand k and out that of  *)
(* the result, "..." standing for the ellipsis; a label's extent is the    *)
(* broadcast of its extents over the operands (extent 1 is stretched), and *)
(* labels absent from out are summed.                                      *)
EllName(k) == <<"...1", "...2", "...3">>[k]
\* the labels of an operand with nd axes: the ellipsis covers what is left,
\* numbered from the right
ExpandSub(sub, nd) ==
    LET named == Len(SelectSeq(sub, LAMBDA l : l # "..."))
        hasE == \E k \in 1..Len(sub) : sub[k] = "..."
        ne == nd - named
    IN  IF (~hasE /\ ne # 0) \/ ne < 0 THEN NoLabels
        ELSE LET pos == IF hasE THEN CHOOSE k \in 1..Len(sub) : sub[k] = "..." ELSE 0
             IN  [k \in 1..nd |->
                    IF hasE /\ k >= pos /\ k < pos + ne THEN EllName(pos + ne - k)
                    ELSE IF hasE /\ k >= pos + ne THEN sub[k - ne + 1]
                    ELSE sub[k]]
SeqRange(s) == {s[k] : k \in 1..Len(s)}
RECURSIVE RSum(_, _)
RSum(f, S) ==
    IF S = {} THEN Zero
    ELSE LET x == CHOOSE y \in S : TRUE IN RAdd(f[x], RSum(f, S \ {x}))
RECURSIVE RProd(_, _)
RProd(seq, k) == IF k = 0 THEN One ELSE RMul(RProd(seq, k - 1), seq[k])

\* the labels in use, and the extents each has over the operands
einsum_labels(lab) == UNION {SeqRange(lab[k]) : k \in 1..Len(lab)}
einsum_ext(ops, lab) ==
    [l \in einsum_labels(lab) |->
        UNION {{ops[k].shape[a] : a \in {b \in 1..Len(lab[k]) : lab[k][b] = l}} :
               k \in 1..Len(ops)}]
einsum_size(ext) ==
    [l \in DOMAIN ext |->
        IF ext[l] \ {1} = {} THEN 1 ELSE CHOOSE x \in ext[l] \ {1} : TRUE]
\* the labels of the result: the ellipsis of out stands for nell axes
einsum_nell(subs, lab) ==
    Cardinality({l \in einsum_labels(lab) :
                    l \notin UNION {SeqRange(subs[k]) : k \in 1..Len(subs)}})
einsum_pos(out) ==
    IF \E k \in 1..Len(out) : out[k] = "..."
    THEN CHOOSE k \in 1..Len(out) : out[k] = "..." ELSE 0
einsum_outlab(out, pos, nell) ==
    [k \in 1..(IF pos = 0 THEN Len(out) ELSE Len(out) - 1 + nell) |->
        IF pos # 0 /\ k >= pos /\ k < pos + nell THEN EllName(pos + nell - k)
        ELSE IF pos # 0 /\ k >= pos + nell THEN out[k - nell + 1]
        ELSE out[k]]
\* where each axis of each operand reads: a summed label (0), or an axis of the result
einsum_src(lab, outlab, summed) ==
    [k \in 1..Len(lab) |-> [a \in 1..Len(lab[k]) |->
        IF lab[k][a] \in summed THEN 0
        ELSE CHOOSE o \in 1..Len(outlab) : outlab[o] = lab[k][a]]]
einsum_at(shape, labk, srck, idx, s) ==
    [a \in 1..Len(labk) |->
        IF shape[a] = 1 THEN 1
        ELSE IF srck[a] = 0 THEN s[labk[a]]
        ELSE idx[srck[a]]]
einsum_term(ops, lab, src, idx, s) ==
    RProd([k \in 1..Len(ops) |->
              ops[k].data[einsum_at(ops[k].shape, lab[k], src[k], idx, s)]], Len(ops))
\* the assignments of the summed labels
einsum_valid(size, summed, top) ==
    {s \in [summed -> 1..top] : \A l \in summed : s[l] <= size[l]}
einsum_top(size) ==
    CHOOSE m \in {size[l] : l \in DOMAIN size} : \A l \in DOMAIN size : size[l] <= m
einsum_sum(ops, lab, src, valid, sh) ==
    Arr(sh, [idx \in Indices(sh) |->
            RSum([s \in valid |-> einsum_term(ops, lab, src, idx, s)], valid)])
einsum_contract(ops, lab, outlab, size, summed) ==
    einsum_sum(ops, lab, einsum_src(lab, outlab, summed),
               einsum_valid(size, summed, einsum_top(size)),
               [k \in 1..Len(outlab) |-> size[outlab[k]]])
einsum_checked(ops, lab, outlab, ext) ==
    IF \E l \in DOMAIN ext : Cardinality(ext[l] \ {1}) > 1 THEN ValueError
    ELSE einsum_contract(ops, lab, outlab, einsum_size(ext), DOMAIN ext \ SeqRange(outlab))
einsum_labelled(subs, out, ops, lab) ==
    IF \E k \in 1..Len(lab) : lab[k] = NoLabels THEN ValueError
    ELSE einsum_checked(ops, lab,
                        einsum_outlab(out, einsum_pos(out), einsum_nell(subs, lab)),
                        einsum_ext(ops, lab))
\* an exception raised while an operand was computed is the call's exception
einsum_raised(ops) ==
    ops[CHOOSE k \in 1..Len(ops) : IsErr(ops[k]) /\ \A m \in 1..(k - 1) : ~IsErr(ops[m])]
einsum(subs, out, ops) ==
    IF \E k \in 1..Len(ops) : IsErr(ops[k]) THEN einsum_raised(ops)
    ELSE einsum_labelled(subs, out, ops,
             [k \in 1..Len(ops) |-> ExpandSub(subs[k], Len(ops[k].shape))])

(* ---------------- the wavefunction-component interface ----------------- *)
(* A component is [kind, configs]: configs is its cache, one row of        *)
(* electron positions per configuration.  Its amplitude is a product of    *)
(* one-electron factors, psi_kind(R) = PROD_e phi(kind, R[e]), never zero, *)
(* reported as (sign, log-magnitude).                                      *)
Elec == {1, 2}
Pos == {0, 1}
Kinds == {1, 2}
Configs == [Elec -> Pos]

phi(kind, x) == IF kind = 1 THEN I(1 + x) ELSE I(3 - 5 * x)
psi(kind, R) == RMul(phi(kind, R[1]), phi(kind, R[2]))
Moved(R, e, x) == [R EXCEPT ![e] = x]
kind_iscomplex(kind) == kind = 2
kind_params(kind) == IF kind = 1 THEN {"a"} ELSE {"a", "b"}

c_nconf(wf) == Len(wf.configs)
\* value(): (sign, log|psi|) of the cached configurations, shape (2, nconf)
c_value(wf) ==
    [sign   |-> [j \in 1..c_nconf(wf) |-> I(Sgn(psi(wf.kind, wf.configs[j])[1]))],
     logabs |-> [j \in 1..c_nconf(wf) |-> Log(RAbs(psi(wf.kind, wf.configs[j])))]]
\* recompute(configs): the cache is replaced
c_recompute(wf, configs) == [wf EXCEPT !.configs = configs]
\* the configurations a mask selects (all of them for mask=None)
MaskSel(mask, nconf) == IF mask.isNone THEN [j \in 1..nconf |-> j] ELSE Selected(mask)
\* updateinternals(e, epos, mask): electron e of each selected configuration
\* moves to that configuration's row of epos
c_updateinternals(wf, e, epos, mask) ==
    [wf EXCEPT !.configs =
        [j \in 1..c_nconf(wf) |->
            IF mask.isNone \/ mask.bits[j]
            THEN Moved(wf.configs[j], e, epos[j]) ELSE wf.configs[j]]]
\* testvalue(e, epos, mask): psi(R')/psi(R) of each selected configuration
c_testvalue(wf, e, epos, mask) ==
    LET sel == MaskSel(mask, c_nconf(wf))
    IN  Arr1([s \in 1..Len(sel) |->
            RDiv(psi(wf.kind, Moved(wf.configs[sel[s]], e, epos[sel[s]])),
                 psi(wf.kind, wf.configs[sel[s]]))])
\* gradient(e, epos): grad_e log psi at the proposed position, shape (3, nconf)
c_gradlog(kind, x) ==
    LET g == RDiv(I(IF kind = 1 THEN 1 ELSE -5), phi(kind, x))
    IN  <<g, RMul(I(2), g), I(kind - x)>>
c_gradient(wf, e, epos) ==
    Arr(<<3, c_nconf(wf)>>,
        [idx \in Indices(<<3, c_nconf(wf)>>) |-> c_gradlog(wf.kind, epos[idx[2]])[idx[1]]])
\* laplacian(e, epos): lap_e psi / psi at the proposed position, shape (nconf,)
c_laplacian(wf, e, epos) ==
    Arr1([j \in 1..c_nconf(wf) |-> Q(wf.kind + e + epos[j], 1 + epos[j])])
\* testvalue_many(e, epos, mask): the same ratio for each electron of the list
\* e moved to epos in turn, shape (selected configurations, len(e))
c_testvalue_many(wf, e, epos, mask) ==
    LET sel == MaskSel(mask, c_nconf(wf))
    IN  Arr(<<Len(sel), Len(e)>>,
            [idx \in Indices(<<Len(sel), Len(e)>>) |->
                RDiv(psi(wf.kind, Moved(wf.configs[sel[idx[1]]], e[idx[2]], epos[sel[idx[1]]])),
                     psi(wf.kind, wf.configs[sel[idx[1]]]))])
\* the fused variants return the pairs of the unfused results
c_gradient_value(wf, e, epos) == <<c_gradient(wf, e, epos), c_testvalue(wf, e, epos, None)>>
c_gradient_laplacian(wf, e, epos) == <<c_gradient(wf, e, epos), c_laplacian(wf, e, epos)>>
\* pgradient(): d log psi / d param of the cached configurations,
\* a dictionary parameter name -> array of shape (nconf,)
c_pgradient(wf) ==
    [k \in kind_params(wf.kind) |->
        Arr1([j \in 1..c_nconf(wf) |->
            Q(wf.configs[j][1] + (IF k = "a" THEN 1 ELSE 3), wf.kind + wf.configs[j][2])])]

(* ------------------------------ SuperposeWF ---------------------------- *)
\* np.array([...]) of equally shaped arrays: a new leading axis
Stack(arrs) ==
    LET sh == <<Len(arrs)>> \o arrs[1].shape
    IN  Arr(sh, [idx \in Indices(sh) |-> arrs[idx[1]].data[Tail(idx)]])
\* np.array([wf.value() for wf in self.wf_components]), shape (ncomp, 2, nconf):
\* [i, 0, j] is the sign and [i, 1, j] the log-magnitude (axes count from 1 here)
wf_vals_of(vals) ==
    LET sh == <<Len(vals), 2, Len(vals[1].sign)>>
    IN  Arr(sh, [idx \in Indices(sh) |->
            IF idx[2] = 1 THEN vals[idx[1]].sign[idx[3]]
            ELSE vals[idx[1]].logabs[idx[3]]])
component_values(wf_components) ==
    wf_vals_of([i \in 1..Len(wf_components) |-> c_value(wf_components[i])])

\* __init__: the arguments are stored as given; the flag is derived once
init_iscomplex(coeffs, wf_components) ==
    \E i \in 1..Len(wf_components) : kind_iscomplex(wf_components[i].kind)
init_dtype(iscomplex) == IF iscomplex THEN "complex" ELSE "float"

\* np.amax over the whole array
amax(A) ==
    LET S == {A.data[idx] : idx \in Indices(A.shape)}
    IN  CHOOSE x \in S : \A y \in S : ~LLt(x, y)
\* ref = np.amax(wf_vals[:,1,:]).real
reference(wf_vals) == amax(Slice2(wf_vals, 2))

\* the rescaled sum and its (sign, log-magnitude), for a given ref
rescaled_sum(coeffs, wf_vals, ref) ==
    einsum(<< <<"i">>, <<"i", "j">>, <<"i", "j">> >>, <<"j">>,
           << Arr1(coeffs), Slice2(wf_vals, 1),
              Map(LAMBDA x : Exp(LSub(x, ref)), Slice2(wf_vals, 2)) >>)
\* the combination with the reference left out of the log-magnitude
combination_unshifted(coeffs, wf_vals, ref) ==
    LET wf_val == rescaled_sum(coeffs, wf_vals, ref)
    IN  [wf_sign |-> Map(LAMBDA v : RDiv(v, RAbs(v)), wf_val),
         wf_val  |-> Map(LAMBDA v : Log(RAbs(v)), wf_val)]
combination(coeffs, wf_vals, ref) ==
    LET wf_val == rescaled_sum(coeffs, wf_vals, ref)
    IN  [wf_sign |-> Map(LAMBDA v : RDiv(v, RAbs(v)), wf_val),
         wf_val  |-> Map(LAMBDA v : LAdd(Log(RAbs(v)), ref), wf_val)]

\* value(): (wf_sign, wf_val)
value(coeffs, wf_components) ==
    LET wf_vals == component_values(wf_components)
        t == combination(coeffs, wf_vals, reference(wf_vals))
    IN  IF IsErr(t.wf_val) THEN ValueError ELSE Tuple(<<t.wf_sign, t.wf_val>>)

\* recompute(configs): every component recomputes, then the same combination
recompute_components(wf_components, configs) ==
    [i \in 1..Len(wf_components) |-> c_recompute(wf_components[i], configs)]
recompute(coeffs, wf_components, configs) ==
    value(coeffs, recompute_components(wf_components, configs))

\* updateinternals(e, epos, mask): the calls made, in order, and their effect
\* the calls with the mask left at its default
updateinternals_calls_unmasked(wf_components, e, epos, mask) ==
    [i \in 1..Len(wf_components) |-> [wf |-> i, e |-> e, epos |-> epos, mask |-> None]]
updateinternals_calls(wf_components, e, epos, mask) ==
    [i \in 1..Len(wf_components) |-> [wf |-> i, e |-> e, epos |-> epos, mask |-> mask]]
RECURSIVE apply_calls(_, _)
apply_calls(wf_components, calls) ==
    IF calls = <<>> THEN wf_components
    ELSE LET c == Head(calls)
         IN  apply_calls([wf_components EXCEPT ![c.wf] =
                              c_updateinternals(@, c.e, c.epos, c.mask)],
                         Tail(calls))
updateinternals(wf_components, e, epos, mask) ==
    apply_calls(wf_components, updateinternals_calls(wf_components, e, epos, mask))

\* "if ratio.shape[1] == 1: ratio = np.squeeze(ratio)"
squeeze_if_unit(ratio) ==
    IF IsErr(ratio) THEN ValueError
    ELSE IF ratio.shape[2] = 1 THEN squeeze(ratio) ELSE ratio

ratio_current_config(coeffs, wf_components, mask) ==
    LET wf_vals == component_values(wf_components)
        t == combination(coeffs, wf_vals, reference(wf_vals))
    IN  IF IsErr(t.wf_val) THEN ValueError
        ELSE squeeze_if_unit(
            einsum(<< <<"i">>, <<"i", "...", "j">>, <<"i", "...", "j">> >>,
                   <<"i", "...", "j">>,
                   << Arr1(coeffs),
                      Broadcast(RDiv, MaskIndex3(wf_vals, 1, mask),
                                      MaskIndex1(t.wf_sign, mask)),
                      Map(Exp, Broadcast(LSub, MaskIndex3(wf_vals, 2, mask),
                                               MaskIndex1(t.wf_val, mask))) >>))

testvalue_components(wf_components, e, epos, mask) ==
    Stack([i \in 1..Len(wf_components) |-> c_testvalue(wf_components[i], e, epos, mask)])
testvalue(coeffs, wf_components, e, epos, mask) ==
    einsum(<< <<"i", "j", "...">>, <<"i", "j">> >>, <<"j", "...">>,
           << testvalue_components(wf_components, e, epos, mask),
              ratio_current_config(coeffs, wf_components, mask) >>)

ratio(coeffs, wf_components, e, epos, mask) ==
    LET wf_vals == component_values(wf_components)
        t == combination(coeffs, wf_vals, reference(wf_vals))
        testvals == testvalue_components(wf_components, e, epos, mask)
    IN  IF IsErr(t.wf_val) THEN ValueError
        ELSE squeeze_if_unit(
            einsum(<< <<"i">>, <<"i", "...", "j">>, <<"i", "...", "j">>, <<"i", "j">> >>,
                   <<"i", "...", "j">>,
                   << Arr1(coeffs),
                      Broadcast(RDiv, MaskIndex3(wf_vals, 1, mask), t.wf_sign),
                      Map(Exp, Broadcast(LSub, MaskIndex3(wf_vals, 2, mask), t.wf_val)),
                      Broadcast(RDiv, testvals,
                                testvalue(coeffs, wf_components, e, epos, mask)) >>))

grads_components(wf_components, e, epos) ==
    Stack([i \in 1..Len(wf_components) |-> c_gradient(wf_components[i], e, epos)])
gradient(coeffs, wf_components, e, epos) ==
    einsum(<< <<"i", "j", "k">>, <<"i", "k">> >>, <<"j", "k">>,
           << grads_components(wf_components, e, epos),
              ratio(coeffs, wf_components, e, epos, None) >>)

laps_components(wf_components, e, epos) ==
    Stack([i \in 1..Len(wf_components) |-> c_laplacian(wf_components[i], e, epos)])
laplacian(coeffs, wf_components, e, epos) ==
    einsum(<< <<"i", "j">>, <<"i", "j">> >>, <<"j">>,
           << laps_components(wf_components, e, epos),
              ratio(coeffs, wf_components, e, epos, None) >>)

\* a method returning the pair (a, b): the first exception raised wins
Pair(a, b) == IF IsErr(a) THEN a ELSE IF IsErr(b) THEN b ELSE Tuple(<<a, b>>)

testvalue_many_components(wf_components, e, epos, mask) ==
    Stack([i \in 1..Len(wf_components) |->
              c_testvalue_many(wf_components[i], e, epos, mask)])
testvalue_many(coeffs, wf_components, e, epos, mask) ==
    einsum(<< <<"i", "j", "k">>, <<"i", "j">> >>, <<"j", "k">>,
           << testvalue_many_components(wf_components, e, epos, mask),
              ratio_current_config(coeffs, wf_components, mask) >>)

\* grads, vals = list(zip(*grad_vals))
fused_first(pairs) == Stack([i \in 1..Len(pairs) |-> pairs[i][1]])
fused_second(pairs) == Stack([i \in 1..Len(pairs) |-> pairs[i][2]])
gradient_value(coeffs, wf_components, e, epos) ==
    Pair(einsum(<< <<"i", "j", "k">>, <<"i", "k">> >>, <<"j", "k">>,
                << fused_first([i \in 1..Len(wf_components) |->
                                   c_gradient_value(wf_components[i], e, epos)]),
                   ratio(coeffs, wf_components, e, epos, None) >>),
         einsum(<< <<"i", "j">>, <<"i", "j">> >>, <<"j">>,
                << fused_second([i \in 1..Len(wf_components) |->
                                    c_gradient_value(wf_components[i], e, epos)]),
                   ratio_current_config(coeffs, wf_components, None) >>))

\* the two sums of gradient_laplacian, over one ratio
gradient_laplacian_sums(grad_laps, ratio_e) ==
    Pair(einsum(<< <<"i", "j", "k">>, <<"i", "k">> >>, <<"j", "k">>,
                << fused_first(grad_laps), ratio_e >>),
         einsum(<< <<"i", "j">>, <<"i", "j">> >>, <<"j">>,
                << fused_second(grad_laps), ratio_e >>))
gradient_laplacian(coeffs, wf_components, e, epos) ==
    gradient_laplacian_sums([i \in 1..Len(wf_components) |->
                                c_gradient_laplacian(wf_components[i], e, epos)],
                            ratio(coeffs, wf_components, e, epos, None))

\* ratio[iwf, :] of the array ratio_current_config() returned
Row(A, iwf) ==
    IF IsErr(A) THEN A
    ELSE IF Len(A.shape) # 2 \/ iwf > A.shape[1] THEN IndexError
    ELSE Arr(<<A.shape[2]>>, [idx \in Indices(<<A.shape[2]>>) |-> A.data[<<iwf, idx[1]>>]])
\* pgradient(): each component's parameter gradients weighted by its ratio
pgradient_entries(coeffs, wf_components) ==
    LET rcc == ratio_current_config(coeffs, wf_components, None)
    IN  [iwf \in 1..Len(wf_components) |->
            [k \in kind_params(wf_components[iwf].kind) |->
                einsum(<< <<"i", "...">>, <<"i">> >>, <<"i", "...">>,
                       << c_pgradient(wf_components[iwf])[k], Row(rcc, iwf) >>)]]
pgradient(coeffs, wf_components) ==
    LET pgrad == pgradient_entries(coeffs, wf_components)
        raised == UNION {{pgrad[iwf][k].err : k \in kind_params(wf_components[iwf].kind)} :
                         iwf \in 1..Len(wf_components)} \ {""}
    IN  IF raised = {} THEN Tuple(pgrad)
        ELSE [err |-> CHOOSE x \in raised : TRUE, shape |-> <<>>, data |-> <<>>]

(* ------------------------------- state --------------------------------- *)
(* One SuperposeWF object and its caller: coeffs, wf_components, iscomplex *)
(* and dtype are the object's fields.  A method runs to completion: pc is  *)
(* "idle" between calls and "returned" while the caller holds the result   *)
(* res of the call op; calls lists the updateinternals calls the method    *)
(* made on the components.                                                 *)
(* One radial function object func and the batch args = [rvec, r] it is    *)
(* evaluated on; fop names the method last called and fres is what it      *)
(* returned.  arith is the arithmetic the radial functions run in: "real"  *)
(* (no rounding) or "float" (every operation rounded to Precision bits).   *)
VARIABLES coeffs, wf_components, iscomplex, dtype, pc, op, res, calls,
          arith, func, args, fop, fres
vars == <<coeffs, wf_components, iscomplex, dtype, pc, op, res, calls,
          arith, func, args, fop, fres>>

(* ------------------------ floating-point rounding ---------------------- *)
Precision == 7    \* significand bits kept by "float" arithmetic

RECURSIVE Pow2(_)
Pow2(k) == IF k = 0 THEN 1 ELSE 2 * Pow2(k - 1)
\* n/d > 0 scaled by 2^-e into [2^(Precision-1), 2^Precision), then rounded
\* to the nearest integer, ties to even
RECURSIVE RoundScaled(_, _, _)
RoundScaled(n, d, e) ==
    IF n < Pow2(Precision - 1) * d THEN RoundScaled(2 * n, d, e - 1)
    ELSE IF n >= Pow2(Precision) * d THEN RoundScaled(n, 2 * d, e + 1)
    ELSE LET m == n \div d
             rem == n % d
             up == 2 * rem > d \/ (2 * rem = d /\ m % 2 = 1)
             mm == IF up THEN m + 1 ELSE m
         IN  IF e >= 0 THEN <<mm * Pow2(e), 1>> ELSE Norm(mm, Pow2(-e))
RoundP(q) ==
    IF ~IsFinite(q) \/ q[1] = 0 THEN q
    ELSE LET m == RoundScaled(IAbs(q[1]), q[2], 0)
         IN  <<Sgn(q[1]) * m[1], m[2]>>
\* the result of one arithmetic operation of the array library
Fl(q) == IF arith = "float" THEN RoundP(q) ELSE q
FAdd(a, b) == Fl(RAdd(a, b))
FSub(a, b) == Fl(RSub(a, b))
FMul(a, b) == Fl(RMul(a, b))
FDiv(a, b) == Fl(RDiv(a, b))
FNeg(a) == RNeg(a)
FSq(a) == Fl(RSq(a))
FCube(a) == Fl(RCube(a))

(* ------------------------- func3d: radial functions -------------------- *)
(* A function object is [cls, parameters].  rvec is a batch of 3-vectors   *)
(* and r the batch of their lengths; a result of shape (nconf,) is a       *)
(* sequence of numbers and one of shape (nconf, 3) a sequence of triples.  *)
(* exp is not a rational function: q * exp(x) is carried as [c, x].        *)
ZeroVec == <<Zero, Zero, Zero>>
Each(rr, F(_)) == [k \in 1..Len(rr) |-> F(k)]
Vec3(F(_)) == [d \in 1..3 |-> F(d)]

GExp(x) == [c |-> One, x |-> x]
GScale(q, v) == [c |-> FMul(q, v.c), x |-> v.x]

Gaussian_value(fn, rv, rr) ==
    Each(rr, LAMBDA k : GExp(FMul(FMul(FNeg(fn.parameters.exponent), rr[k]), rr[k])))
Gaussian_gradient(fn, rv, rr) ==
    LET v == Gaussian_value(fn, rv, rr)
    IN  Each(rr, LAMBDA k : Vec3(LAMBDA d :
            GScale(FMul(FMul(I(-2), fn.parameters.exponent), rv[k][d]), v[k])))
Gaussian_gradient_value(fn, rv, rr) ==
    LET v == Gaussian_value(fn, rv, rr)
        g == Each(rr, LAMBDA k : Vec3(LAMBDA d :
                GScale(FMul(FMul(I(-2), fn.parameters.exponent), rv[k][d]), v[k])))
    IN  <<g, v>>
Gaussian_laplacian(fn, rv, rr) ==
    LET v == Gaussian_value(fn, rv, rr)
        alpha == fn.parameters.exponent
    IN  Each(rr, LAMBDA k : Vec3(LAMBDA d :
            GScale(FSub(FMul(FMul(FMul(FMul(I(4), alpha), alpha), rv[k][d]), rv[k][d]),
                        FMul(I(2), alpha)), v[k])))
Gaussian_gradient_laplacian(fn, rv, rr) ==
    LET v == Gaussian_value(fn, rv, rr)
        alpha == fn.parameters.exponent
        grad == Each(rr, LAMBDA k : Vec3(LAMBDA d :
                    GScale(FMul(FMul(I(-2), alpha), rv[k][d]), v[k])))
        lap == Each(rr, LAMBDA k : Vec3(LAMBDA d :
                    GScale(FSub(FMul(FMul(FMul(FMul(I(4), alpha), alpha), rv[k][d]), rv[k][d]),
                                FMul(I(2), alpha)), v[k])))
    IN  <<grad, lap>>
Gaussian_pgradient(fn, rv, rr) ==
    [exponent |-> Each(rr, LAMBDA k :
        LET r2 == FMul(rr[k], rr[k])
        IN  GScale(FNeg(r2), GExp(FMul(FNeg(fn.parameters.exponent), r2))))]

Pade_value(fn, rv, rr) ==
    Each(rr, LAMBDA k :
        LET a == FMul(fn.parameters.alphak, rr[k])
        IN  FSq(FDiv(a, FAdd(One, a))))
Pade_gradient(fn, rv, rr) ==
    Each(rr, LAMBDA k :
        LET a == FMul(fn.parameters.alphak, rr[k])
        IN  Vec3(LAMBDA d :
                FMul(FDiv(FMul(I(2), FSq(fn.parameters.alphak)), FCube(FAdd(One, a))),
                     rv[k][d])))
Pade_gradient_value(fn, rv, rr) ==
    LET a == Each(rr, LAMBDA k : FMul(fn.parameters.alphak, rr[k]))
        val == Each(rr, LAMBDA k : FSq(FDiv(a[k], FAdd(One, a[k]))))
        grad == Each(rr, LAMBDA k : Vec3(LAMBDA d :
                    FMul(FDiv(FMul(I(2), FSq(fn.parameters.alphak)), FCube(FAdd(One, a[k]))),
                         rv[k][d])))
    IN  <<grad, val>>
Pade_laplacian(fn, rv, rr) ==
    Each(rr, LAMBDA k :
        LET a == FMul(fn.parameters.alphak, rr[k])
        IN  Vec3(LAMBDA d :
                FMul(FMul(FMul(I(2), FSq(fn.parameters.alphak)),
                          Fl(RInv(RCube(FAdd(One, a))))),
                     FSub(One, FMul(FDiv(FMul(I(3), a), FAdd(One, a)),
                                    FSq(FDiv(rv[k][d], rr[k])))))))
Pade_gradient_laplacian(fn, rv, rr) ==
    LET a == Each(rr, LAMBDA k : FMul(fn.parameters.alphak, rr[k]))
        temp == Each(rr, LAMBDA k :
                    FDiv(FMul(I(2), FSq(fn.parameters.alphak)), FCube(FAdd(One, a[k]))))
        grad == Each(rr, LAMBDA k : Vec3(LAMBDA d : FMul(temp[k], rv[k][d])))
        lap == Each(rr, LAMBDA k : Vec3(LAMBDA d :
                    FMul(temp[k],
                         FSub(One, FMul(FDiv(FMul(I(3), a[k]), FAdd(One, a[k])),
                                        FSq(FDiv(rv[k][d], rr[k])))))))
    IN  <<grad, lap>>
Pade_pgradient(fn, rv, rr) ==
    [alphak |-> Each(rr, LAMBDA k :
        LET a == FMul(fn.parameters.alphak, rr[k])
        IN  FMul(FDiv(FMul(I(2), a), FCube(FAdd(One, a))), rr[k]))]

\* the polynomials of the two cutoff functions, in the code's operation order
pp_p(z) == FMul(FMul(z, z), FAdd(FSub(I(6), FMul(I(8), z)), FMul(FMul(I(3), z), z)))
pp_dpdz(z) == FMul(FMul(I(12), z), FAdd(FSub(FMul(z, z), FMul(I(2), z)), One))
pp_dbdp(beta, p) == FDiv(FNeg(FAdd(One, beta)), FSq(FAdd(One, FMul(beta, p))))
polypadevalue(z, beta) ==
    LET p == pp_p(z)
    IN  FDiv(FSub(One, p), FAdd(One, FMul(beta, p)))

PolyPade_value(fn, rv, rr) ==
    Each(rr, LAMBDA k :
        IF RLt(rr[k], fn.parameters.rcut)
        THEN polypadevalue(FDiv(rr[k], fn.parameters.rcut), fn.parameters.beta)
        ELSE Zero)
\* grad[mask] of gradient, gradient_value and gradient_laplacian, one element
pp_gradmask(fn, x, r1) ==
    LET z == FDiv(r1, fn.parameters.rcut)
        p == pp_p(z)
        dpdz == pp_dpdz(z)
        dbdp == pp_dbdp(fn.parameters.beta, p)
        dzdx == FDiv(x, FMul(r1, fn.parameters.rcut))
    IN  FMul(FMul(dbdp, dpdz), dzdx)
PolyPade_gradient(fn, rv, rr) ==
    Each(rr, LAMBDA k :
        IF RLt(rr[k], fn.parameters.rcut)
        THEN Vec3(LAMBDA d : pp_gradmask(fn, rv[k][d], rr[k]))
        ELSE ZeroVec)
PolyPade_gradient_value(fn, rv, rr) ==
    LET grad == Each(rr, LAMBDA k :
                    IF RLt(rr[k], fn.parameters.rcut)
                    THEN Vec3(LAMBDA d : pp_gradmask(fn, rv[k][d], rr[k]))
                    ELSE ZeroVec)
        val == Each(rr, LAMBDA k :
                    IF RLt(rr[k], fn.parameters.rcut)
                    THEN LET p == pp_p(FDiv(rr[k], fn.parameters.rcut))
                         IN  FDiv(FSub(One, p), FAdd(One, FMul(fn.parameters.beta, p)))
                    ELSE Zero)
    IN  <<grad, val>>
pp_lapmask(fn, x, r1) ==
    LET rcut == fn.parameters.rcut
        beta == fn.parameters.beta
        z == FDiv(r1, rcut)
        p == pp_p(z)
        dpdz == pp_dpdz(z)
        dbdp == pp_dbdp(beta, p)
        dzdx == FDiv(x, FMul(r1, rcut))
        gradmask == FMul(FMul(dbdp, dpdz), dzdx)
        d2pdz2_over_dpdz == FDiv(FSub(FMul(I(3), z), One), FMul(z, FSub(z, One)))
        d2bdp2_over_dbdp == FDiv(FMul(I(-2), beta), FAdd(One, FMul(beta, p)))
        d2zdx2 == FDiv(FSub(One, FSq(FDiv(x, r1))), FMul(r1, rcut))
    IN  FAdd(FMul(FMul(dbdp, dpdz), d2zdx2),
             FMul(gradmask, FAdd(FMul(FMul(d2bdp2_over_dbdp, dpdz), dzdx),
                                 FMul(d2pdz2_over_dpdz, dzdx))))
PolyPade_gradient_laplacian(fn, rv, rr) ==
    LET grad == Each(rr, LAMBDA k :
                    IF RLt(rr[k], fn.parameters.rcut)
                    THEN Vec3(LAMBDA d : pp_gradmask(fn, rv[k][d], rr[k]))
                    ELSE ZeroVec)
        lap == Each(rr, LAMBDA k :
                    IF RLt(rr[k], fn.parameters.rcut)
                    THEN Vec3(LAMBDA d : pp_lapmask(fn, rv[k][d], rr[k]))
                    ELSE ZeroVec)
    IN  <<grad, lap>>
PolyPade_laplacian(fn, rv, rr) == PolyPade_gradient_laplacian(fn, rv, rr)[2]
\* the derivatives are formed for every element, then zeroed where r >= rcut
PolyPade_pgradient(fn, rv, rr) ==
    LET rcut == fn.parameters.rcut
        beta == fn.parameters.beta
        mask == Each(rr, LAMBDA k : RLe(rcut, rr[k]))
        z == Each(rr, LAMBDA k : FDiv(rr[k], rcut))
        p == Each(rr, LAMBDA k : pp_p(z[k]))
        derivrcut == Each(rr, LAMBDA k :
                        FMul(FMul(pp_dbdp(beta, p[k]), pp_dpdz(z[k])),
                             FDiv(FNeg(z[k]), rcut)))
        derivbeta == Each(rr, LAMBDA k :
                        FDiv(FMul(FNeg(p[k]), FSub(One, p[k])),
                             FSq(FAdd(One, FMul(beta, p[k])))))
    IN  [rcut |-> Each(rr, LAMBDA k : IF mask[k] THEN Zero ELSE derivrcut[k]),
         beta |-> Each(rr, LAMBDA k : IF mask[k] THEN Zero ELSE derivbeta[k])]

cc_a(y) == FAdd(FSub(One, FMul(I(2), y)), FMul(y, y))
cc_b(y) == FAdd(FSub(y, FMul(y, y)), FDiv(FMul(FMul(y, y), y), I(3)))
\* c of gradient, gradient_value, laplacian and gradient_laplacian
cc_c(gamma, rcut, b, r1) ==
    FDiv(FDiv(One, FSq(FAdd(One, FMul(gamma, b)))), FMul(rcut, r1))
cc_val(gamma, b) ==
    FAdd(FDiv(FNeg(b), FAdd(One, FMul(gamma, b))), FDiv(One, FAdd(I(3), gamma)))

CutoffCusp_value(fn, rv, rr) ==
    Each(rr, LAMBDA k :
        FMul(IF RLt(rr[k], fn.parameters.rcut)
             THEN cc_val(fn.parameters.gamma, cc_b(FDiv(rr[k], fn.parameters.rcut)))
             ELSE Zero,
             fn.parameters.rcut))
\* -rvec[mask] * a * c * rcut, one element
cc_gradmask(fn, x, r1) ==
    LET rcut == fn.parameters.rcut
        y == FDiv(r1, rcut)
        a == cc_a(y)
        c == cc_c(fn.parameters.gamma, rcut, cc_b(y), r1)
    IN  FMul(FMul(FMul(FNeg(x), a), c), rcut)
CutoffCusp_gradient(fn, rv, rr) ==
    Each(rr, LAMBDA k :
        IF RLt(rr[k], fn.parameters.rcut)
        THEN Vec3(LAMBDA d : cc_gradmask(fn, rv[k][d], rr[k]))
        ELSE ZeroVec)
\* the fused pair with the value left unscaled by rcut
CutoffCusp_gradient_value_unscaled(fn, rv, rr) ==
    <<CutoffCusp_gradient(fn, rv, rr),
      Each(rr, LAMBDA k :
          IF RLt(rr[k], fn.parameters.rcut)
          THEN cc_val(fn.parameters.gamma, cc_b(FDiv(rr[k], fn.parameters.rcut)))
          ELSE Zero)>>
CutoffCusp_gradient_value(fn, rv, rr) ==
    LET grad == Each(rr, LAMBDA k :
                    IF RLt(rr[k], fn.parameters.rcut)
                    THEN Vec3(LAMBDA d : cc_gradmask(fn, rv[k][d], rr[k]))
                    ELSE ZeroVec)
        val == Each(rr, LAMBDA k :
                    IF RLt(rr[k], fn.parameters.rcut)
                    THEN cc_val(fn.parameters.gamma, cc_b(FDiv(rr[k], fn.parameters.rcut)))
                    ELSE Zero)
    IN  <<grad, Each(rr, LAMBDA k : FMul(val[k], fn.parameters.rcut))>>
\* -rcut * c * (a + rvec ** 2 * temp), one element
cc_lapmask(fn, x, r1) ==
    LET rcut == fn.parameters.rcut
        gamma == fn.parameters.gamma
        y == FDiv(r1, rcut)
        a == cc_a(y)
        b == cc_b(y)
        c == cc_c(gamma, rcut, b, r1)
        temp1 == FDiv(FMul(I(2), FSub(y, One)), FMul(rcut, r1))
        temp2 == FSub(temp1, FDiv(a, FSq(r1)))
        temp == FSub(temp2, FMul(FMul(FMul(FMul(FMul(I(2), a), a), c), gamma),
                                 FAdd(One, FMul(gamma, b))))
    IN  FMul(FMul(FNeg(rcut), c), FAdd(a, FMul(FSq(x), temp)))
CutoffCusp_laplacian(fn, rv, rr) ==
    Each(rr, LAMBDA k :
        IF RLt(rr[k], fn.parameters.rcut)
        THEN Vec3(LAMBDA d : cc_lapmask(fn, rv[k][d], rr[k]))
        ELSE ZeroVec)
CutoffCusp_gradient_laplacian(fn, rv, rr) ==
    LET rcut == fn.parameters.rcut
        grad == Each(rr, LAMBDA k :
                    IF RLt(rr[k], rcut)
                    THEN LET y == FDiv(rr[k], rcut)
                             a == cc_a(y)
                             c == cc_c(fn.parameters.gamma, rcut, cc_b(y), rr[k])
                         IN  Vec3(LAMBDA d : FMul(FMul(FMul(FNeg(rcut), a), c), rv[k][d]))
                    ELSE ZeroVec)
        lap == Each(rr, LAMBDA k :
                    IF RLt(rr[k], rcut)
                    THEN Vec3(LAMBDA d : cc_lapmask(fn, rv[k][d], rr[k]))
                    ELSE ZeroVec)
    IN  <<grad, lap>>
\* the derivatives are formed for every element, then zeroed where r > rcut
CutoffCusp_pgradient(fn, rv, rr) ==
    LET rcut == fn.parameters.rcut
        gamma == fn.parameters.gamma
        mask == Each(rr, LAMBDA k : RLt(rcut, rr[k]))
        y == Each(rr, LAMBDA k : FDiv(rr[k], rcut))
        a == Each(rr, LAMBDA k : cc_a(y[k]))
        b == Each(rr, LAMBDA k : cc_b(y[k]))
        val == Each(rr, LAMBDA k : cc_val(gamma, b[k]))
        dfdrcut == Each(rr, LAMBDA k :
                      FAdd(FDiv(FMul(y[k], a[k]), FSq(FAdd(One, FMul(gamma, b[k])))),
                           val[k]))
        dfdgamma == Each(rr, LAMBDA k :
                      FMul(FSub(FSq(FDiv(b[k], FAdd(One, FMul(gamma, b[k])))),
                                FDiv(One, FSq(FAdd(I(3), gamma)))),
                           rcut))
    IN  [rcut  |-> Each(rr, LAMBDA k : IF mask[k] THEN Zero ELSE dfdrcut[k]),
         gamma |-> Each(rr, LAMBDA k : IF mask[k] THEN Zero ELSE dfdgamma[k])]

(* The denominators of the divisions a method performs on one element of   *)
(* distance r1: those of the masked methods on the elements their mask     *)
(* selects, those of pgradient on every element.                           *)
PolyPade_divisors(name, fn, r1) ==
    LET rcut == fn.parameters.rcut
        z == FDiv(r1, rcut)
        q == FAdd(One, FMul(fn.parameters.beta, pp_p(z)))
    IN  IF name = "pgradient" THEN {rcut, FSq(q)}
        ELSE IF ~RLt(r1, rcut) THEN {}
        ELSE IF name = "value" THEN {rcut, q}
        ELSE IF name = "gradient" THEN {rcut, FSq(q), FMul(r1, rcut)}
        ELSE IF name = "gradient_value" THEN {rcut, FSq(q), FMul(r1, rcut), q}
        ELSE {rcut, FSq(q), FMul(r1, rcut), FMul(z, FSub(z, One)), q, r1}
CutoffCusp_divisors(name, fn, r1) ==
    LET rcut == fn.parameters.rcut
        gamma == fn.parameters.gamma
        q == FAdd(One, FMul(gamma, cc_b(FDiv(r1, rcut))))
    IN  IF name = "pgradient"
        THEN {rcut, I(3), FSq(q), FMul(rcut, r1), q, FAdd(I(3), gamma),
              FSq(FAdd(I(3), gamma))}
        ELSE IF ~RLt(r1, rcut) THEN {}
        ELSE IF name = "value" THEN {rcut, I(3), q, FAdd(I(3), gamma)}
        ELSE IF name = "gradient" THEN {rcut, I(3), FSq(q), FMul(rcut, r1)}
        ELSE IF name = "gradient_value"
        THEN {rcut, I(3), FSq(q), FMul(rcut, r1), q, FAdd(I(3), gamma)}
        ELSE {rcut, I(3), FSq(q), FMul(rcut, r1), FSq(r1)}
f_divisors(name, fn, r1) ==
    CASE fn.cls = "PolyPadeFunction" -> PolyPade_divisors(name, fn, r1)
      [] fn.cls = "CutoffCuspFunction" -> CutoffCusp_divisors(name, fn, r1)

\* a method evaluates its formula on an element when it divides there (every
\* formula starts with r / rcut)
f_evaluated(name, fn, r1) == f_divisors(name, fn, r1) # {}

\* the method of the object's class
f_value(fn, rv, rr) ==
    CASE fn.cls = "GaussianFunction" -> Gaussian_value(fn, rv, rr)
      [] fn.cls = "PadeFunction" -> Pade_value(fn, rv, rr)
      [] fn.cls = "PolyPadeFunction" -> PolyPade_value(fn, rv, rr)
      [] fn.cls = "CutoffCuspFunction" -> CutoffCusp_value(fn, rv, rr)
f_gradient(fn, rv, rr) ==
    CASE fn.cls = "GaussianFunction" -> Gaussian_gradient(fn, rv, rr)
      [] fn.cls = "PadeFunction" -> Pade_gradient(fn, rv, rr)
      [] fn.cls = "PolyPadeFunction" -> PolyPade_gradient(fn, rv, rr)
      [] fn.cls = "CutoffCuspFunction" -> CutoffCusp_gradient(fn, rv, rr)
f_gradient_value(fn, rv, rr) ==
    CASE fn.cls = "GaussianFunction" -> Gaussian_gradient_value(fn, rv, rr)
      [] fn.cls = "PadeFunction" -> Pade_gradient_value(fn, rv, rr)
      [] fn.cls = "PolyPadeFunction" -> PolyPade_gradient_value(fn, rv, rr)
      [] fn.cls = "CutoffCuspFunction" -> CutoffCusp_gradient_value(fn, rv, rr)
f_laplacian(fn, rv, rr) ==
    CASE fn.cls = "GaussianFunction" -> Gaussian_laplacian(fn, rv, rr)
      [] fn.cls = "PadeFunction" -> Pade_laplacian(fn, rv, rr)
      [] fn.cls = "PolyPadeFunction" -> PolyPade_laplacian(fn, rv, rr)
      [] fn.cls = "CutoffCuspFunction" -> CutoffCusp_laplacian(fn, rv, rr)
f_gradient_laplacian(fn, rv, rr) ==
    CASE fn.cls = "GaussianFunction" -> Gaussian_gradient_laplacian(fn, rv, rr)
      [] fn.cls = "PadeFunction" -> Pade_gradient_laplacian(fn, rv, rr)
      [] fn.cls = "PolyPadeFunction" -> PolyPade_gradient_laplacian(fn, rv, rr)
      [] fn.cls = "CutoffCuspFunction" -> CutoffCusp_gradient_laplacian(fn, rv, rr)
f_pgradient(fn, rv, rr) ==
    CASE fn.cls = "GaussianFunction" -> Gaussian_pgradient(fn, rv, rr)
      [] fn.cls = "PadeFunction" -> Pade_pgradient(fn, rv, rr)
      [] fn.cls = "PolyPadeFunction" -> PolyPade_pgradient(fn, rv, rr)
      [] fn.cls = "CutoffCuspFunction" -> CutoffCusp_pgradient(fn, rv, rr)

(* ------------------------- the combiner as a machine ------------------- *)
\* what the constructor and the methods are called with
CoefVals == {-1, 0, 1}
\* a leading coefficient 1 followed by equal coefficients
CoefLists == {[i \in 1..n |-> IF i = 1 THEN 1 ELSE v] : n \in 1..MaxComp, v \in CoefVals}
KindLists == {[i \in 1..n |-> 1 + ((i + 1) % 2)] : n \in 1..MaxComp}
RecomputePool ==
    UNION {{[j \in 1..n |-> [e \in Elec |-> 0]],
            [j \in 1..n |-> [e \in Elec |-> (j + e) % 2]]} : n \in 1..MaxConf}
EposPool(n) == {[j \in 1..n |-> 1], [j \in 1..n |-> j % 2]}
\* the electron lists testvalue_many is called with
ElecLists == {<<1, 2>>, <<2>>}
MaskPool(n) ==
    {None, BoolMask([j \in 1..n |-> TRUE]), BoolMask([j \in 1..n |-> j = 1]),
     BoolMask([j \in 1..n |-> j < n \/ n = 1])}

PyNone == [err |-> "", shape |-> <<>>, data |-> <<>>]
Call(name, e, epos, mask) == [name |-> name, e |-> e, epos |-> epos, mask |-> mask]
NoCall == Call("", 0, <<>>, None)
nconf == c_nconf(wf_components[1])

\* the radial function object left alone while the combiner runs
IdleFunc3d ==
    /\ arith = "real"
    /\ func = [cls |-> "PadeFunction", parameters |-> [alphak |-> One]]
    /\ args = [rvec |-> <<>>, r |-> <<>>]
    /\ fop = ""
    /\ fres = <<>>
func3d_vars == <<arith, func, args, fop, fres>>
combiner_vars == <<coeffs, wf_components, iscomplex, dtype, pc, op, res, calls>>

\* construction: __init__ stores what it is given, of whatever lengths
Construct(cs, ks, configs) ==
    /\ coeffs = [i \in 1..Len(cs) |-> I(cs[i])]
    /\ wf_components = [i \in 1..Len(ks) |-> [kind |-> ks[i], configs |-> configs]]
    /\ iscomplex = init_iscomplex(coeffs, wf_components)
    /\ dtype = init_dtype(iscomplex)
    /\ pc = "idle"
    /\ op = NoCall
    /\ res = PyNone
    /\ calls = <<>>
Init ==
    /\ \E cs \in CoefLists, ks \in KindLists, configs \in RecomputePool :
          Construct(cs, ks, configs)
    /\ IdleFunc3d

Returns(call, result) ==
    /\ pc = "idle"
    /\ pc' = "returned"
    /\ op' = call
    /\ res' = result
    /\ UNCHANGED func3d_vars
\* a method that resets every component's cache on its way
FrameResettingCache ==
    /\ wf_components' = recompute_components(wf_components,
                                             [j \in 1..nconf |-> [e \in Elec |-> 1]])
    /\ UNCHANGED <<coeffs, iscomplex, dtype, calls>>
\* the methods below assign no field and call no updateinternals / recompute
Frame == UNCHANGED <<coeffs, wf_components, iscomplex, dtype, calls>>

Recompute ==
    \E configs \in RecomputePool :
        /\ Returns(Call("recompute", 0, configs, None),
                   recompute(coeffs, wf_components, configs))
        /\ wf_components' = recompute_components(wf_components, configs)
        /\ UNCHANGED <<coeffs, iscomplex, dtype, calls>>

UpdateInternals ==
    \E e \in Elec, epos \in EposPool(nconf), mask \in MaskPool(nconf) :
        /\ Returns(Call("updateinternals", e, epos, mask), PyNone)
        /\ calls' = updateinternals_calls(wf_components, e, epos, mask)
        /\ wf_components' = updateinternals(wf_components, e, epos, mask)
        /\ UNCHANGED <<coeffs, iscomplex, dtype>>

Value ==
    /\ Returns(Call("value", 0, <<>>, None), value(coeffs, wf_components))
    /\ Frame

RatioCurrentConfig ==
    \E mask \in MaskPool(nconf) :
        /\ Returns(Call("ratio_current_config", 0, <<>>, mask),
                   ratio_current_config(coeffs, wf_components, mask))
        /\ Frame

Ratio ==
    \E e \in Elec, epos \in EposPool(nconf), mask \in MaskPool(nconf) :
        /\ Returns(Call("ratio", e, epos, mask),
                   ratio(coeffs, wf_components, e, epos, mask))
        /\ Frame

Testvalue ==
    \E e \in Elec, epos \in EposPool(nconf), mask \in MaskPool(nconf) :
        /\ Returns(Call("testvalue", e, epos, mask),
                   testvalue(coeffs, wf_components, e, epos, mask))
        /\ Frame

Gradient ==
    \E e \in Elec, epos \in EposPool(nconf) :
        /\ Returns(Call("gradient", e, epos, None),
                   gradient(coeffs, wf_components, e, epos))
        /\ Frame

Laplacian ==
    \E e \in Elec, epos \in EposPool(nconf) :
        /\ Returns(Call("laplacian", e, epos, None),
                   laplacian(coeffs, wf_components, e, epos))
        /\ Frame

Pgradient ==
    /\ Returns(Call("pgradient", 0, <<>>, None), pgradient(coeffs, wf_components))
    /\ Frame

TestvalueMany ==
    \E e \in ElecLists, epos \in EposPool(nconf), mask \in MaskPool(nconf) :
        /\ Returns(Call("testvalue_many", e, epos, mask),
                   testvalue_many(coeffs, wf_components, e, epos, mask))
        /\ Frame

GradientValue ==
    \E e \in Elec, epos \in EposPool(nconf) :
        /\ Returns(Call("gradient_value", e, epos, None),
                   gradient_value(coeffs, wf_components, e, epos))
        /\ Frame

GradientLaplacian ==
    \E e \in Elec, epos \in EposPool(nconf) :
        /\ Returns(Call("gradient_laplacian", e, epos, None),
                   gradient_laplacian(coeffs, wf_components, e, epos))
        /\ Frame

\* the caller takes the result; the object is ready for the next call
Return ==
    /\ pc = "returned"
    /\ pc' = "idle"
    /\ op' = NoCall
    /\ res' = PyNone
    /\ calls' = <<>>
    /\ UNCHANGED <<coeffs, wf_components, iscomplex, dtype>>
    /\ UNCHANGED func3d_vars

Next ==
    \/ Recompute
    \/ UpdateInternals
    \/ Value
    \/ RatioCurrentConfig
    \/ Ratio
    \/ Testvalue
    \/ Gradient
    \/ Laplacian
    \/ Pgradient
    \/ TestvalueMany
    \/ GradientValue
    \/ GradientLaplacian
    \/ Return

Spec == Init /\ [][Next]_vars

(* ---------------------- the radial functions as a machine -------------- *)
MaxPts == 2    \* elements per batch handed to a radial function

Half == Q(1, 2)
\* displacement vectors with their lengths
PointPool ==
    {[rvec |-> <<Zero, Zero, Zero>>, r |-> Zero],
     [rvec |-> <<Half, Zero, Zero>>, r |-> Half],
     [rvec |-> <<Zero, I(-1), Zero>>, r |-> One],
     [rvec |-> <<Half, One, I(-1)>>, r |-> Q(3, 2)],
     [rvec |-> <<Zero, Zero, I(2)>>, r |-> I(2)],
     [rvec |-> <<One, I(-2), I(2)>>, r |-> I(3)]}
BatchPool ==
    UNION {{[rvec |-> [k \in 1..n |-> b[k].rvec], r |-> [k \in 1..n |-> b[k].r]] :
            b \in [1..n -> PointPool]} : n \in 1..MaxPts}
CutoffPool ==
    {[cls |-> "PolyPadeFunction", parameters |-> [beta |-> b, rcut |-> c]] :
        b \in {Zero, Half, I(2)}, c \in {One, I(2)}}
    \cup {[cls |-> "CutoffCuspFunction", parameters |-> [gamma |-> g, rcut |-> c]] :
        g \in {Zero, Half, I(2)}, c \in {One, I(2)}}
FuncPool ==
    {[cls |-> "GaussianFunction", parameters |-> [exponent |-> a]] : a \in {Half, One}}
    \cup {[cls |-> "PadeFunction", parameters |-> [alphak |-> a]] : a \in {Half, One}}
    \cup CutoffPool

\* the combiner left alone while the radial functions run
IdleCombiner == Construct(<<1>>, <<1>>, <<[e \in Elec |-> 0]>>)

InitFunc3d ==
    /\ arith = "real"
    /\ func \in FuncPool
    /\ args \in BatchPool
    /\ fop = ""
    /\ fres = <<>>
    /\ IdleCombiner
InitFloat ==
    /\ arith = "float"
    /\ func \in CutoffPool
    /\ args \in BatchPool
    /\ fop = ""
    /\ fres = <<>>
    /\ IdleCombiner

Evaluates(name, result) ==
    /\ fop' = name
    /\ fres' = result
    /\ UNCHANGED <<arith, func, args>>
    /\ UNCHANGED combiner_vars

FValue == Evaluates("value", f_value(func, args.rvec, args.r))
FGradient == Evaluates("gradient", f_gradient(func, args.rvec, args.r))
FGradientValue == Evaluates("gradient_value", f_gradient_value(func, args.rvec, args.r))
FLaplacian == Evaluates("laplacian", f_laplacian(func, args.rvec, args.r))
FGradientLaplacian ==
    Evaluates("gradient_laplacian", f_gradient_laplacian(func, args.rvec, args.r))
FPgradient == Evaluates("pgradient", f_pgradient(func, args.rvec, args.r))

NextFunc3d ==
    \/ FValue
    \/ FGradient
    \/ FGradientValue
    \/ FLaplacian
    \/ FGradientLaplacian
    \/ FPgradient

SpecFunc3d == InitFunc3d /\ [][NextFunc3d]_vars
SpecFloat == InitFloat /\ [][NextFunc3d]_vars

(* ======================= properties of the combiner ==================== *)
(* The amplitudes below are formed directly from the components' psi, not  *)
(* through the combiner's sign / log-magnitude route.                      *)
ncomp == Len(wf_components)
WellFormed == Len(coeffs) = Len(wf_components)
RECURSIVE SumTo(_, _)
SumTo(f, n) == IF n = 0 THEN Zero ELSE RAdd(SumTo(f, n - 1), f[n])
\* c_i * psi_i at configuration j, and with electron e of it moved to x
Term(i, j) == RMul(coeffs[i], psi(wf_components[i].kind, wf_components[i].configs[j]))
TermMoved(i, j, e, x) ==
    RMul(coeffs[i], psi(wf_components[i].kind, Moved(wf_components[i].configs[j], e, x)))
Psi(j) == SumTo([i \in 1..ncomp |-> Term(i, j)], ncomp)
PsiMoved(j, e, x) == SumTo([i \in 1..ncomp |-> TermMoved(i, j, e, x)], ncomp)
Returned(name) == pc = "returned" /\ op.name = name
OffNodes == \A j \in 1..nconf : Psi(j) # Zero
OffNodesMoved == \A j \in 1..nconf : PsiMoved(j, op.e, op.epos[j]) # Zero
\* the batch shapes on which ratio_current_config() keeps both of its axes
TwoAxes(mask) == ncomp >= 2 /\ Len(MaskSel(mask, nconf)) >= 2

\* A is indexed by component on its first axis and sums to 1 along it
SumsToOneOverComponents(A) ==
    /\ ~IsErr(A)
    /\ A.shape # <<>>
    /\ A.shape[1] = ncomp
    /\ \A rest \in Indices(Tail(A.shape)) :
          SumTo([i \in 1..ncomp |-> A.data[<<i>> \o rest]], ncomp) = One

\* C1 (decomposition of unity): whenever ratio_current_config() returns for a
\* combiner whose combined amplitude is nonzero at every configuration, its
\* result has the components on the first axis and sums to exactly 1 over
\* them, for every configuration.
DecompositionOfUnity ==
    (Returned("ratio_current_config") /\ WellFormed /\ OffNodes)
        => SumsToOneOverComponents(res)
\* the same, on the batches where both axes are kept
DecompositionOfUnityTwoAxes ==
    (Returned("ratio_current_config") /\ WellFormed /\ OffNodes /\ TwoAxes(op.mask))
        => SumsToOneOverComponents(res)
DecompositionOfUnityCase ==
    Returned("ratio_current_config") /\ WellFormed /\ OffNodes /\ TwoAxes(op.mask)
        /\ coeffs[2] # Zero

AmplitudeRatio(sel, e, epos) ==
    Arr1([s \in 1..Len(sel) |-> RDiv(PsiMoved(sel[s], e, epos[sel[s]]), Psi(sel[s]))])
\* C4 (test-value self-consistency): whenever testvalue(e, epos, mask) returns
\* for a combiner that is off its nodes, the result is, for every selected
\* configuration, psi(R')/psi(R) with psi = sum_i c_i psi_i.
TestvalueConsistent ==
    (Returned("testvalue") /\ WellFormed /\ OffNodes)
        => res = AmplitudeRatio(MaskSel(op.mask, nconf), op.e, op.epos)
TestvalueConsistentTwoAxes ==
    (Returned("testvalue") /\ WellFormed /\ OffNodes /\ TwoAxes(op.mask))
        => res = AmplitudeRatio(MaskSel(op.mask, nconf), op.e, op.epos)

TrialWeight(i, j, e, epos) == RDiv(TermMoved(i, j, e, epos[j]), PsiMoved(j, e, epos[j]))
TrialWeights(e, epos) ==
    Arr(<<ncomp, nconf>>,
        [idx \in Indices(<<ncomp, nconf>>) |-> TrialWeight(idx[1], idx[2], e, epos)])
\* C5 (weights at a trial move): whenever ratio(e, epos) returns for a
\* combiner that is off its nodes before and after the move, entry (i, j) of
\* the result is c_i psi_i(R'_j) / psi(R'_j), and the entries of every
\* configuration sum to 1.
RatioAtTrialMove ==
    (Returned("ratio") /\ op.mask.isNone /\ WellFormed /\ OffNodes /\ OffNodesMoved)
        => (res = TrialWeights(op.e, op.epos) /\ SumsToOneOverComponents(res))
RatioAtTrialMoveTwoAxes ==
    (Returned("ratio") /\ op.mask.isNone /\ WellFormed /\ OffNodes /\ OffNodesMoved
        /\ TwoAxes(None))
        => (res = TrialWeights(op.e, op.epos) /\ SumsToOneOverComponents(res))

WeightedGradient(e, epos) ==
    Arr(<<3, nconf>>,
        [idx \in Indices(<<3, nconf>>) |->
            SumTo([i \in 1..ncomp |->
                     RMul(TrialWeight(i, idx[2], e, epos),
                          c_gradient(wf_components[i], e, epos).data[idx])], ncomp)])
WeightedLaplacian(e, epos) ==
    Arr(<<nconf>>,
        [idx \in Indices(<<nconf>>) |->
            SumTo([i \in 1..ncomp |->
                     RMul(TrialWeight(i, idx[1], e, epos),
                          c_laplacian(wf_components[i], e, epos).data[idx])], ncomp)])
\* C6 (amplitude-share weighting): whenever gradient(e, epos) or
\* laplacian(e, epos) returns for a combiner that is off its nodes before and
\* after the move, the result is the sum over components of the trial-move
\* weight c_i psi_i(R')/psi(R') times that component's gradient or laplacian.
DerivativesWeighted ==
    /\ (Returned("gradient") /\ WellFormed /\ OffNodes /\ OffNodesMoved)
          => res = WeightedGradient(op.e, op.epos)
    /\ (Returned("laplacian") /\ WellFormed /\ OffNodes /\ OffNodesMoved)
          => res = WeightedLaplacian(op.e, op.epos)
DerivativesWeightedTwoAxes ==
    /\ (Returned("gradient") /\ WellFormed /\ OffNodes /\ OffNodesMoved /\ TwoAxes(None))
          => res = WeightedGradient(op.e, op.epos)
    /\ (Returned("laplacian") /\ WellFormed /\ OffNodes /\ OffNodesMoved /\ TwoAxes(None))
          => res = WeightedLaplacian(op.e, op.epos)

Degenerate == ncomp = 2 /\ coeffs = <<One, Zero>>
ValueOf(wf) == Tuple(<<Arr1(c_value(wf).sign), Arr1(c_value(wf).logabs)>>)
\* C7 (degenerate-coefficient reduction): for coefficients [1, 0] over
\* components [A, B], value() returns A.value(), and gradient(e, epos) and
\* laplacian(e, epos) return A's gradient and laplacian.
DegenerateReduction ==
    /\ (Returned("value") /\ Degenerate) => res = ValueOf(wf_components[1])
    /\ (Returned("gradient") /\ Degenerate)
          => res = c_gradient(wf_components[1], op.e, op.epos)
    /\ (Returned("laplacian") /\ Degenerate)
          => res = c_laplacian(wf_components[1], op.e, op.epos)
DegenerateReductionTwoAxes ==
    /\ (Returned("value") /\ Degenerate) => res = ValueOf(wf_components[1])
    /\ (Returned("gradient") /\ Degenerate /\ TwoAxes(None))
          => res = c_gradient(wf_components[1], op.e, op.epos)
    /\ (Returned("laplacian") /\ Degenerate /\ TwoAxes(None))
          => res = c_laplacian(wf_components[1], op.e, op.epos)

ShiftPool == {Log(Q(1, 3)), Log(Q(1, 2)), Log(I(2)), Log(I(5))}
\* C8 (reference-shift invariance): whenever value() or recompute() returns
\* for a combiner that is off its nodes, the pair it returned is the pair the
\* combination gives with ref replaced by ref + k, for every shift k.
ReferenceShiftInvariant ==
    ((Returned("value") \/ Returned("recompute")) /\ WellFormed /\ OffNodes)
        => \A k \in ShiftPool :
              LET wf_vals == component_values(wf_components)
                  t == combination(coeffs, wf_vals, LAdd(reference(wf_vals), k))
              IN  res = Tuple(<<t.wf_sign, t.wf_val>>)
\* a returned value of two components of different magnitudes and signs
ReferenceShiftCase ==
    /\ Returned("recompute") /\ WellFormed /\ OffNodes /\ ncomp = 2
    /\ coeffs[2] # Zero
    /\ \E j \in 1..nconf :
          /\ c_value(wf_components[1]).logabs[j] # c_value(wf_components[2]).logabs[j]
          /\ c_value(wf_components[1]).sign[j] # c_value(wf_components[2]).sign[j]

\* C9 (length invariant): in every state of every object, from construction
\* on, there are as many coefficients as components.
LengthInvariant == Len(coeffs) = Len(wf_components)
\* what the methods do keep: the two lengths the object was constructed with
LengthsKept ==
    [][Len(coeffs') = Len(coeffs) /\ Len(wf_components') = Len(wf_components)]_vars

\* C10 (updateinternals is a pure passthrough): a call updateinternals(e,
\* epos, mask) calls updateinternals(e, epos, mask) on component 1, 2, ... in
\* this order, once each, leaves each component with the effect of that one
\* call, and changes no field of the combiner.
Passthrough ==
    [][(pc = "idle" /\ pc' = "returned" /\ op'.name = "updateinternals")
        => /\ Len(calls') = Len(wf_components)
           /\ \A i \in 1..Len(wf_components) :
                 /\ calls'[i] = [wf |-> i, e |-> op'.e, epos |-> op'.epos, mask |-> op'.mask]
                 /\ wf_components'[i] =
                       c_updateinternals(wf_components[i], op'.e, op'.epos, op'.mask)
           /\ coeffs' = coeffs
           /\ Len(wf_components') = Len(wf_components)
           /\ iscomplex' = iscomplex
           /\ dtype' = dtype]_vars
\* a masked update of two components that moves an electron
PassthroughCase ==
    /\ Returned("updateinternals") /\ ncomp = 2 /\ ~op.mask.isNone
    /\ \E j \in 1..nconf : ~op.mask.bits[j]
    /\ \E j \in 1..nconf : wf_components[1].configs[j][op.e] = 1

ReadMethods ==
    {"value", "ratio_current_config", "ratio", "testvalue", "testvalue_many",
     "gradient", "gradient_value", "laplacian", "gradient_laplacian", "pgradient"}
\* C11 (the cache is written only by updateinternals and recompute): a call of
\* value, ratio_current_config, ratio, testvalue, testvalue_many, gradient,
\* gradient_value, laplacian, gradient_laplacian or pgradient leaves every
\* component's cached state and every field of the combiner as it found
\* them, whether it returns or raises; and the result of a value() call is
\* the result a second value() call made right after it returns.
CacheWrittenOnlyByUpdates ==
    [][(pc = "idle" /\ pc' = "returned" /\ op'.name \in ReadMethods)
        => /\ wf_components' = wf_components
           /\ coeffs' = coeffs
           /\ iscomplex' = iscomplex
           /\ dtype' = dtype
           /\ op'.name = "value" => res' = value(coeffs', wf_components')]_vars
\* a fused call that returned its pair for two components whose cache holds
\* moved electrons
CacheReadCase ==
    /\ Returned("gradient_value") /\ WellFormed /\ ncomp = 2 /\ ~IsErr(res)
    /\ \E j \in 1..nconf : wf_components[2].configs[j][1] = 1

\* component i's parameter gradients, each multiplied per configuration by
\* the component's share c_i psi_i(R) / psi(R)
WeightedPgradient(i) ==
    [k \in kind_params(wf_components[i].kind) |->
        Arr1([j \in 1..nconf |->
                 RMul(c_pgradient(wf_components[i])[k].data[<<j>>],
                      RDiv(Term(i, j), Psi(j)))])]
\* C12 (combiner parameter gradient): whenever pgradient() returns for a
\* combiner that is off its nodes, with any number of components and of
\* configurations, the result has one entry per component, at the
\* component's index, whose keys are the keys of the component's pgradient()
\* and whose values are the component's values multiplied per configuration
\* by the component's ratio_current_config; there is no entry besides these.
PgradientWeighted ==
    (Returned("pgradient") /\ WellFormed /\ OffNodes)
        => res = Tuple([i \in 1..ncomp |-> WeightedPgradient(i)])
\* the same, on the batches where ratio_current_config() keeps both axes
PgradientWeightedTwoAxes ==
    (Returned("pgradient") /\ WellFormed /\ OffNodes /\ TwoAxes(None))
        => res = Tuple([i \in 1..ncomp |-> WeightedPgradient(i)])
PgradientWeightedCase ==
    /\ Returned("pgradient") /\ WellFormed /\ OffNodes /\ TwoAxes(None)
    /\ ~IsErr(res) /\ coeffs[2] # Zero

\* the exponent logabs_i - ref the combination takes of component i at
\* configuration j
Exponent(i, j) ==
    LSub(c_value(wf_components[i]).logabs[j], reference(component_values(wf_components)))
UsesReference ==
    Returned("recompute") \/ Returned("value") \/ Returned("ratio_current_config")
        \/ Returned("ratio")
\* C15 (per-configuration reference): whenever recompute, value,
\* ratio_current_config or ratio has run, then for every configuration every
\* component's exponent logabs_i - ref is at most 0 and some component's
\* exponent is exactly 0, ref being the maximum over the components at that
\* configuration.
PerConfigurationReference ==
    (UsesReference /\ WellFormed)
        => \A j \in 1..nconf :
              /\ \A i \in 1..ncomp : ~LLt(Log(One), Exponent(i, j))
              /\ \E i \in 1..ncomp : Exponent(i, j) = Log(One)
\* what the one reference of the whole batch gives: no exponent above 0, and
\* exponent 0 at some component of some configuration
BatchReference ==
    (UsesReference /\ WellFormed)
        => /\ \A j \in 1..nconf : \A i \in 1..ncomp : ~LLt(Log(One), Exponent(i, j))
           /\ \E j \in 1..nconf : \E i \in 1..ncomp : Exponent(i, j) = Log(One)

\* the weights of the selected configurations, each formed from the
\* amplitudes of its own configuration: at R, and at the trial move R'
MaskedWeights(sel) ==
    Arr(<<ncomp, Len(sel)>>,
        [idx \in Indices(<<ncomp, Len(sel)>>) |->
            RDiv(Term(idx[1], sel[idx[2]]), Psi(sel[idx[2]]))])
MaskedTrialWeights(sel, e, epos) ==
    Arr(<<ncomp, Len(sel)>>,
        [idx \in Indices(<<ncomp, Len(sel)>>) |-> TrialWeight(idx[1], sel[idx[2]], e, epos)])
MaskedCall(name) == Returned(name) /\ ~op.mask.isNone /\ WellFormed /\ OffNodes
\* C16 (mask consistency of the weights): whenever ratio_current_config(mask)
\* or ratio(e, epos, mask) returns for a boolean mask, a proper subset or a
\* single configuration included, its entry for component i and a selected
\* configuration is that configuration's own weight, the one the unmasked
\* call gives it: c_i psi_i / psi at R, respectively at R'.
MaskConsistent ==
    /\ MaskedCall("ratio_current_config") => res = MaskedWeights(Selected(op.mask))
    /\ (MaskedCall("ratio") /\ OffNodesMoved)
          => res = MaskedTrialWeights(Selected(op.mask), op.e, op.epos)
\* ratio_current_config(mask) does return these weights, short of the axes
\* np.squeeze removes
MaskConsistentCurrentConfig ==
    MaskedCall("ratio_current_config")
        => res = squeeze_if_unit(MaskedWeights(Selected(op.mask)))
\* ratio(e, epos, mask) returns them for a mask that selects every
\* configuration of a batch that keeps both axes, and raises for every mask
\* that leaves a configuration out
MaskConsistentRatio ==
    (MaskedCall("ratio") /\ OffNodesMoved)
        => IF Len(Selected(op.mask)) < nconf THEN res = ValueError
           ELSE TwoAxes(op.mask)
                    => res = MaskedTrialWeights(Selected(op.mask), op.e, op.epos)

(* =================== properties of the radial functions ================ *)
npts == Len(args.r)
HasCutoff == func.cls \in {"PolyPadeFunction", "CutoffCuspFunction"}
\* the elements at or beyond the cutoff, and those inside it
Beyond == {k \in 1..npts : RLe(func.parameters.rcut, args.r[k])}
Inside == {k \in 1..npts : RLt(args.r[k], func.parameters.rcut)}

\* C2 (cutoff exactness): whatever value, gradient, laplacian or pgradient of
\* a Poly-Pade or Cutoff-Cusp function returned, its element is exactly zero
\* at every input element with r >= rcut, r == rcut included.
CutoffExact ==
    HasCutoff =>
        \A k \in Beyond :
            /\ fop = "value" => fres[k] = Zero
            /\ fop \in {"gradient", "laplacian"} => fres[k] = ZeroVec
            /\ fop = "pgradient" => \A name \in DOMAIN fres : fres[name][k] = Zero
\* the same away from the boundary
CutoffExactPastBoundary ==
    HasCutoff =>
        \A k \in {j \in 1..npts : RLt(func.parameters.rcut, args.r[j])} :
            /\ fop = "value" => fres[k] = Zero
            /\ fop \in {"gradient", "laplacian"} => fres[k] = ZeroVec
            /\ fop = "pgradient" => \A name \in DOMAIN fres : fres[name][k] = Zero

NoZeroDivision ==
    (HasCutoff /\ fop # "")
        => \A k \in 1..npts : Zero \notin f_divisors(fop, func, args.r[k])
\* the same for the elements off the origin
NoZeroDivisionOffOrigin ==
    (HasCutoff /\ fop # "")
        => \A k \in {j \in 1..npts : args.r[j] # Zero} :
              Zero \notin f_divisors(fop, func, args.r[k])
\* a zero divisor shows in what the unfused derivatives return
ZeroDivisionShows ==
    (HasCutoff /\ fop \in {"gradient", "laplacian"})
        => \A k \in 1..npts :
              (Zero \in f_divisors(fop, func, args.r[k]))
                  <=> (\E d \in 1..3 : ~IsFinite(fres[k][d]))

\* C14 (mask before evaluate): whatever method of a Poly-Pade or Cutoff-Cusp
\* function was called, value, gradient, laplacian and pgradient included, it
\* evaluated its formula on no element with r >= rcut.
MaskBeforeEvaluate ==
    (HasCutoff /\ fop # "")
        => \A k \in Beyond : ~f_evaluated(fop, func, args.r[k])
\* the same for every method but pgradient, which also evaluates the formula
\* on every element inside the cutoff
MaskBeforeEvaluateButPgradient ==
    (HasCutoff /\ fop \notin {"", "pgradient"})
        => /\ \A k \in Beyond : ~f_evaluated(fop, func, args.r[k])
           /\ \A k \in Inside : f_evaluated(fop, func, args.r[k])

====
